---- MODULE Spec2Model ----
(***************************************************************************)
(* Model of the GitStart scoring services:                                 *)
(*   src/src/ai_engine/code_analyzer.py   CodeAnalyzer                     *)
(*   src/src/api/main.py                  analyze_code, classify_issue     *)
(*   src/src/ml_models/issue_classifier.py IssueDifficultyClassifier       *)
(*                                                                         *)
(* Texts are sequences of one-character strings.  Floats are exact         *)
(* decimals: a model score is a record [num, den] (num/den, den a power of *)
(* ten), a static score is an integer number of tenths and a final score   *)
(* an integer number of hundredths.                                        *)
(***************************************************************************)
EXTENDS Integers, Sequences, FiniteSets, TLC

(***************************************************************************)
(* Bounds of the model.                                                    *)
(***************************************************************************)
MaxNodes == 2
MaxNewlines == 1
MaxScoreLen == 5
MaxSuggestLen == 4
MaxLines == 6
MaxComplexity == 8
MaxCount == 3
MaxNum == 10
ProbScale == 4

(***************************************************************************)
(* Text helpers: str.split, str.strip, str.startswith.                     *)
(***************************************************************************)
Digits == {"0", "1", "2", "3", "4", "5", "6", "7", "8", "9"}

DigitVal(c) ==
    CASE c = "0" -> 0 [] c = "1" -> 1 [] c = "2" -> 2 [] c = "3" -> 3
      [] c = "4" -> 4 [] c = "5" -> 5 [] c = "6" -> 6 [] c = "7" -> 7
      [] c = "8" -> 8 [] c = "9" -> 9

\* The characters str.strip() removes (str.isspace); "\n" never occurs
\* inside a line produced by split('\n').
Whitespace == {" ", "\t", "\r", "\n"}

\* content.split('\n'): the pieces between newlines, empty pieces kept.
RECURSIVE SplitFrom(_, _, _)
SplitFrom(s, i, cur) ==
    IF i > Len(s) THEN <<cur>>
    ELSE IF s[i] = "\n" THEN <<cur>> \o SplitFrom(s, i + 1, <<>>)
    ELSE SplitFrom(s, i + 1, Append(cur, s[i]))

Split(s) == SplitFrom(s, 1, <<>>)

RECURSIVE LStrip(_, _)
LStrip(s, chars) ==
    IF s # <<>> /\ Head(s) \in chars THEN LStrip(Tail(s), chars) ELSE s

RECURSIVE RStrip(_, _)
RStrip(s, chars) ==
    IF s # <<>> /\ s[Len(s)] \in chars
    THEN RStrip(SubSeq(s, 1, Len(s) - 1), chars) ELSE s

\* line.strip(chars)
StripChars(s, chars) == RStrip(LStrip(s, chars), chars)

\* line.strip()
Strip(s) == StripChars(s, Whitespace)

\* s.startswith('-')
StartsWithDash(s) == s # <<>> /\ Head(s) = "-"

(***************************************************************************)
(* re.search(r'(\d+(\.\d+)?)/10', content): a backtracking matcher tried   *)
(* at each start position from the left.  A match is <<start, end>> of     *)
(* group 1 (end exclusive); NoMatch is <<0, 0>>.                           *)
(***************************************************************************)
NoMatch == <<0, 0>>

\* Length of the maximal run of digits starting at position i (greedy \d+).
RECURSIVE DigitRun(_, _)
DigitRun(s, i) ==
    IF i <= Len(s) /\ s[i] \in Digits THEN 1 + DigitRun(s, i + 1) ELSE 0

\* The literal "/10" at position i.
LiteralAt(s, i) ==
    i + 2 <= Len(s) /\ s[i] = "/" /\ s[i + 1] = "1" /\ s[i + 2] = "0"

\* Group 2, (\.\d+), entered at the "." at position j: try k digits, longest
\* first, each followed by the literal.  Returns the end of the group or 0.
RECURSIVE FracEnd(_, _, _)
FracEnd(s, j, k) ==
    IF k = 0 THEN 0
    ELSE IF LiteralAt(s, j + 1 + k) THEN j + 1 + k
    ELSE FracEnd(s, j, k - 1)

\* Group 1 from position i with k integer digits, longest first: first with
\* the optional group 2, then without it.  Returns the end of group 1 or 0.
RECURSIVE Group1End(_, _, _)
Group1End(s, i, k) ==
    IF k = 0 THEN 0
    ELSE LET j == i + k
             withFrac == IF j <= Len(s) /\ s[j] = "."
                         THEN FracEnd(s, j, DigitRun(s, j + 1))
                         ELSE 0
         IN  IF withFrac # 0 THEN withFrac
             ELSE IF LiteralAt(s, j) THEN j
             ELSE Group1End(s, i, k - 1)

RECURSIVE SearchFrom(_, _)
SearchFrom(s, i) ==
    IF i > Len(s) THEN NoMatch
    ELSE LET e == Group1End(s, i, DigitRun(s, i))
         IN  IF e # 0 THEN <<i, e>> ELSE SearchFrom(s, i + 1)

\* A mutant of ReSearch: the scan keeps the last match instead of the first.
RECURSIVE SearchLastFrom(_, _)
SearchLastFrom(s, i) ==
    IF i < 1 THEN NoMatch
    ELSE LET e == Group1End(s, i, DigitRun(s, i))
         IN  IF e # 0 /\ (i = 1 \/ s[i - 1] \notin Digits \union {"."})
             THEN <<i, e>> ELSE SearchLastFrom(s, i - 1)

ReSearchLast(s) == SearchLastFrom(s, Len(s))

ReSearch(s) == SearchFrom(s, 1)

\* float(text) for a text of the form digits or digits.digits.
RECURSIVE ToFloatFrom(_, _, _, _)
ToFloatFrom(t, i, num, den) ==
    IF i > Len(t) THEN [num |-> num, den |-> IF den = 0 THEN 1 ELSE den]
    ELSE IF t[i] = "." THEN ToFloatFrom(t, i + 1, num, 1)
    ELSE ToFloatFrom(t, i + 1, 10 * num + DigitVal(t[i]),
                     IF den = 0 THEN 0 ELSE 10 * den)

ToFloat(t) == ToFloatFrom(t, 1, 0, 0)

DefaultScore == [num |-> 5, den |-> 1]

\* CodeAnalyzer._extract_score
extract_score(content) ==
    LET m == ReSearch(content)
    IN  IF m # NoMatch THEN ToFloat(SubSeq(content, m[1], m[2] - 1))
        ELSE DefaultScore

(***************************************************************************)
(* CodeAnalyzer._extract_suggestions                                       *)
(***************************************************************************)
MaxSuggestions == 5

RECURSIVE SuggestionsOf(_)
SuggestionsOf(lines) ==
    IF lines = <<>> THEN <<>>
    ELSE LET line == Head(lines)
         IN  IF StartsWithDash(Strip(line))
             THEN <<Strip(StripChars(line, {"-", " "}))>> \o SuggestionsOf(Tail(lines))
             ELSE SuggestionsOf(Tail(lines))

Take(s, n) == SubSeq(s, 1, IF Len(s) < n THEN Len(s) ELSE n)

extract_suggestions(content) == Take(SuggestionsOf(Split(content)), MaxSuggestions)

(***************************************************************************)
(* Source files.  ast.parse is a library call: a source text is modelled   *)
(* by what ast.parse does with it, either the exception it raises or the    *)
(* tree it returns, together with the number of newlines in the text.  A   *)
(* tree is a sequence of nodes below the Module root (node 0); each node    *)
(* names its kind and its parent, which precedes it.                       *)
(***************************************************************************)
NodeKinds ==
    {"If", "While", "For", "Try", "ExceptHandler",
     "FunctionDef", "ClassDef", "AsyncFor", "Expr"}

\* What ast.parse(code) can do: return a tree, raise SyntaxError (malformed
\* syntax), or fail on a text too deeply nested for the parser with
\* RecursionError or MemoryError.
ParseFailures == {"SyntaxError", "RecursionError", "MemoryError"}

IsTree(t) ==
    \A i \in 1..Len(t) :
        /\ t[i].parent < i
        /\ t[i].kind = "ExceptHandler" =>
               (t[i].parent > 0 /\ t[t[i].parent].kind = "Try")

TreesOfSize(k) ==
    {t \in [1..k -> [kind : NodeKinds, parent : 0..(k - 1)]] : IsTree(t)}

Trees == UNION {TreesOfSize(k) : k \in 0..MaxNodes}

Sources ==
    {[parse |-> "ok", tree |-> t, newlines |-> n] : t \in Trees, n \in 0..MaxNewlines}
    \union
    {[parse |-> f, tree |-> <<>>, newlines |-> n] : f \in ParseFailures, n \in 0..MaxNewlines}

KindOf(tree, i) == IF i = 0 THEN "Module" ELSE tree[i].kind

\* ast.iter_child_nodes: the children of node p, in source order.
RECURSIVE ChildrenFrom(_, _, _)
ChildrenFrom(tree, p, i) ==
    IF i > Len(tree) THEN <<>>
    ELSE IF tree[i].parent = p THEN <<i>> \o ChildrenFrom(tree, p, i + 1)
    ELSE ChildrenFrom(tree, p, i + 1)

\* ast.walk: breadth-first from the root, the kinds of the nodes yielded.
RECURSIVE WalkQueue(_, _)
WalkQueue(tree, todo) ==
    IF todo = <<>> THEN <<>>
    ELSE LET node == Head(todo)
         IN  <<KindOf(tree, node)>>
                 \o WalkQueue(tree, Tail(todo) \o ChildrenFrom(tree, node, 1))

Walk(tree) == WalkQueue(tree, <<0>>)

\* len([n for n in ast.walk(tree) if isinstance(n, kinds)])
RECURSIVE CountKinds(_, _)
CountKinds(walk, kinds) ==
    IF walk = <<>> THEN 0
    ELSE (IF Head(walk) \in kinds THEN 1 ELSE 0) + CountKinds(Tail(walk), kinds)

\* The node classes _cyclomatic_complexity tests with isinstance.
BranchKinds == {"If", "While", "For", "ExceptHandler"}

\* CodeAnalyzer._cyclomatic_complexity
RECURSIVE ComplexityLoop(_, _)
ComplexityLoop(walk, complexity) ==
    IF walk = <<>> THEN complexity
    ELSE ComplexityLoop(Tail(walk),
                        IF Head(walk) \in BranchKinds THEN complexity + 1
                        ELSE complexity)

cyclomatic_complexity(tree) == ComplexityLoop(Walk(tree), 1)

ZeroMetrics == [lines_of_code |-> 0, functions |-> 0, classes |-> 0, complexity |-> 0]

\* The handler of _static_analysis: the exception classes `except` names.
CaughtByStatic == {"SyntaxError"}

\* CodeAnalyzer._static_analysis: [raised |-> exception or "", value |-> metrics].
static_analysis(code) ==
    IF code.parse = "ok"
    THEN [raised |-> "",
          value |-> [lines_of_code |-> code.newlines + 1,
                     functions |-> CountKinds(Walk(code.tree), {"FunctionDef"}),
                     classes |-> CountKinds(Walk(code.tree), {"ClassDef"}),
                     complexity |-> cyclomatic_complexity(code.tree)]]
    ELSE IF code.parse \in CaughtByStatic
    THEN [raised |-> "", value |-> ZeroMetrics]
    ELSE [raised |-> code.parse, value |-> ZeroMetrics]

(***************************************************************************)
(* CodeAnalyzer._calculate_final_score                                     *)
(***************************************************************************)
Min(a, b) == IF a < b THEN a ELSE b

\* complexity*0.5 + classes*0.3 + functions*0.2, in tenths.
RawStaticScore(static) ==
    5 * static.complexity + 3 * static.classes + 2 * static.functions

\* A mutant of StaticScore: the min(10, ...) clamp is missing.
StaticScoreUnclamped(static) == RawStaticScore(static)

\* static_score = min(10, ...), in tenths.
StaticScore(static) == Min(100, RawStaticScore(static))

\* round(a/b): to the nearest integer, an exact tie to the even one.  With a
\* static score in tenths and a model score of at most two decimals the
\* weighted sum is a multiple of 0.002, so no tie arises at two decimals.
RoundDiv(a, b) ==
    LET q == a \div b
        r == a % b
    IN  IF 2 * r < b THEN q
        ELSE IF 2 * r > b THEN q + 1
        ELSE IF q % 2 = 0 THEN q ELSE q + 1

\* final = static_score*0.4 + ai_score*0.6; round(final, 2), in hundredths.
calculate_final_score(static, ai) ==
    RoundDiv(4 * StaticScore(static) * ai.ai_score.den + 60 * ai.ai_score.num,
             ai.ai_score.den)

\* A mutant of IsBeginner: the comparison is strict.
IsBeginnerStrict(score) == score < 400

\* final_score <= 4.0, the score in hundredths.
IsBeginner(score) == score <= 400

(***************************************************************************)
(* The state.  An optional value is a sequence: <<>> (None) or <<v>>.      *)
(*                                                                         *)
(* The analysis request (main.py analyze_code -> analyze_file):            *)
(*   file            what open(file_path) finds: <<>> (no such file) or    *)
(*                   <<source>>                                            *)
(*   remote          what the text-generation service does with a request  *)
(*   pc              the position of the request in the handler            *)
(*   code, static_metrics, content, ai_insights, final_score               *)
(*                   the locals of analyze_file and _ai_analysis           *)
(*   create_calls    calls of client.chat.completions.create               *)
(*   raised          the exception propagating out of analyze_file         *)
(*   result          the ComplexityScore analyze_file returned             *)
(*   response        the HTTP response of analyze_code                     *)
(* The classifier (issue_classifier.py, main.py classify_issue):           *)
(*   env             what the environment holds: the model artifact at     *)
(*                   model_path, the tokenizer and the encoder             *)
(*   clf_pc          the position of the constructor / the object's state  *)
(*   model           self.model: "none", "loaded" or "fresh"               *)
(*   clf_log         what happened during construction                     *)
(*   clf_raised      the exception the constructor raised, or ""           *)
(*   prediction      the last classify_issue call: its text, the model's   *)
(*                   output, the (difficulty, confidence) predict returned *)
(*                   and the response                                      *)
(***************************************************************************)
VARIABLES file, remote, pc, code, static_metrics, content, ai_insights,
          final_score, create_calls, raised, result, response,
          env, clf_pc, model, clf_log, clf_raised, prediction

analyzer_vars ==
    <<file, remote, pc, code, static_metrics, content, ai_insights,
      final_score, create_calls, raised, result, response>>

classifier_vars == <<env, clf_pc, model, clf_log, clf_raised, prediction>>

vars == <<analyzer_vars, classifier_vars>>

None == <<>>

Some(v) == <<v>>

(***************************************************************************)
(* Replies of the text-generation service used for whole requests.         *)
(***************************************************************************)
\* 'Score: 7.5/10\n- Use better names\n- Add tests'
ReplySpecExample ==
    <<"S", "c", "o", "r", "e", ":", " ", "7", ".", "5", "/", "1", "0",
    "\n", "-", " ", "U", "s", "e", " ", "b", "e", "t", "t", "e", "r", " ",
    "n", "a", "m", "e", "s", "\n", "-", " ", "A", "d", "d", " ", "t", "e",
    "s", "t", "s">>

\* 'Looks fine.'
ReplyNoScore ==
    <<"L", "o", "o", "k", "s", " ", "f", "i", "n", "e", ".">>

\* 'Rating: 6/10'
ReplySix ==
    <<"R", "a", "t", "i", "n", "g", ":", " ", "6", "/", "1", "0">>

\* 'Score: 100/10'
ReplyHundred ==
    <<"S", "c", "o", "r", "e", ":", " ", "1", "0", "0", "/", "1", "0">>

\* '0/10'
ReplyZero ==
    <<"0", "/", "1", "0">>

\* '3/10\n-a\n-b\n-c\n-d\n-e\n-f'
ReplySixBullets ==
    <<"3", "/", "1", "0", "\n", "-", "a", "\n", "-", "b", "\n", "-", "c",
    "\n", "-", "d", "\n", "-", "e", "\n", "-", "f">>

\* '2.5/10\n\t- x\n- y-'
ReplyIndented ==
    <<"2", ".", "5", "/", "1", "0", "\n", "\t", "-", " ", "x", "\n", "-",
    " ", "y", "-">>

\* ''
ReplyEmpty ==
    <<>>

ReplyTexts ==
    {ReplySpecExample, ReplyNoScore, ReplySix, ReplyHundred, ReplyZero,
     ReplySixBullets, ReplyIndented, ReplyEmpty}

\* The service's failures: transport, authentication, rate limit.
RemoteErrors ==
    {[type |-> "APIConnectionError", message |-> "Connection error."],
     [type |-> "AuthenticationError", message |-> "Incorrect API key provided"],
     [type |-> "RateLimitError", message |-> "Rate limit reached"]}

NoError == [type |-> "", message |-> ""]

RemoteOutcomes ==
    {[error |-> NoError, text |-> t] : t \in ReplyTexts}
    \union {[error |-> e, text |-> <<>>] : e \in RemoteErrors}

\* str(e) of the exceptions ast.parse and open raise.
ParseError(kind) ==
    [type |-> kind,
     message |-> IF kind = "RecursionError"
                 THEN "maximum recursion depth exceeded during ast construction"
                 ELSE ""]

FileError == [type |-> "FileNotFoundError", message |-> "[Errno 2] No such file or directory"]

(***************************************************************************)
(* analyze_file, step by step.                                             *)
(***************************************************************************)
\* analyze_file lines 28-29: open(file_path) and read.
ReadFile ==
    /\ pc = "request"
    /\ IF file = None
       THEN /\ raised' = FileError
            /\ pc' = "raised"
            /\ code' = code
       ELSE /\ code' = file
            /\ pc' = "static"
            /\ raised' = raised
    /\ UNCHANGED <<file, remote, static_metrics, content, ai_insights,
                   final_score, create_calls, result, response>>
    /\ UNCHANGED classifier_vars

\* analyze_file line 32: static_metrics = self._static_analysis(code).
StaticAnalysis ==
    /\ pc = "static"
    /\ LET r == static_analysis(code[1])
       IN  IF r.raised = ""
           THEN /\ static_metrics' = Some(r.value)
                /\ pc' = "ai"
                /\ raised' = raised
           ELSE /\ raised' = ParseError(r.raised)
                /\ pc' = "raised"
                /\ static_metrics' = static_metrics
    /\ UNCHANGED <<file, remote, code, content, ai_insights, final_score,
                   create_calls, result, response>>
    /\ UNCHANGED classifier_vars

\* _ai_analysis lines 94-99: the dict built from the reply's content.
ParseContent(text) ==
    [ai_score |-> extract_score(text), suggestions |-> extract_suggestions(text)]

\* A mutant of AiAnalysis: a failed request is retried once and then answered
\* with a default insight instead of the error.
AiAnalysisRetrying ==
    /\ pc = "ai"
    /\ IF remote.error # NoError
       THEN /\ create_calls' = create_calls + 2
            /\ ai_insights' = Some([ai_score |-> DefaultScore, suggestions |-> <<>>])
            /\ pc' = "combine"
            /\ UNCHANGED <<content, raised>>
       ELSE /\ create_calls' = create_calls + 1
            /\ content' = remote.text
            /\ ai_insights' = Some(ParseContent(remote.text))
            /\ pc' = "combine"
            /\ raised' = raised
    /\ UNCHANGED <<file, remote, code, static_metrics, final_score, result, response>>
    /\ UNCHANGED classifier_vars

\* analyze_file line 35: ai_insights = self._ai_analysis(code); one call of
\* client.chat.completions.create, whose exception is not caught.
AiAnalysis ==
    /\ pc = "ai"
    /\ create_calls' = create_calls + 1
    /\ IF remote.error # NoError
       THEN /\ raised' = remote.error
            /\ pc' = "raised"
            /\ UNCHANGED <<content, ai_insights>>
       ELSE /\ content' = remote.text
            /\ ai_insights' = Some(ParseContent(remote.text))
            /\ pc' = "combine"
            /\ raised' = raised
    /\ UNCHANGED <<file, remote, code, static_metrics, final_score, result, response>>
    /\ UNCHANGED classifier_vars

\* analyze_file lines 38-45: the final score and the ComplexityScore returned.
Combine ==
    /\ pc = "combine"
    /\ LET score == calculate_final_score(static_metrics[1], ai_insights[1])
       IN  /\ final_score' = Some(score)
           /\ result' = Some([score |-> score,
                              metrics |-> static_metrics[1],
                              suggestions |-> ai_insights[1].suggestions,
                              suitable_for_beginner |-> IsBeginner(score)])
    /\ pc' = "returned"
    /\ UNCHANGED <<file, remote, code, static_metrics, content, ai_insights,
                   create_calls, raised, response>>
    /\ UNCHANGED classifier_vars

\* analyze_code lines 46-51: the AnalysisResponse built from the result.
Respond ==
    /\ pc = "returned"
    /\ response' = Some([status |-> 200,
                         score |-> result[1].score,
                         metrics |-> result[1].metrics,
                         suggestions |-> result[1].suggestions,
                         beginner_friendly |-> result[1].suitable_for_beginner,
                         detail |-> ""])
    /\ pc' = "responded"
    /\ UNCHANGED <<file, remote, code, static_metrics, content, ai_insights,
                   final_score, create_calls, raised, result>>
    /\ UNCHANGED classifier_vars

\* analyze_code lines 52-53: except Exception -> HTTPException(500, str(e)).
RespondError ==
    /\ pc = "raised"
    /\ response' = Some([status |-> 500,
                         score |-> 0,
                         metrics |-> ZeroMetrics,
                         suggestions |-> <<>>,
                         beginner_friendly |-> FALSE,
                         detail |-> raised.message])
    /\ pc' = "responded"
    /\ UNCHANGED <<file, remote, code, static_metrics, content, ai_insights,
                   final_score, create_calls, raised, result>>
    /\ UNCHANGED classifier_vars

AnalyzerNext ==
    \/ ReadFile
    \/ StaticAnalysis
    \/ AiAnalysis
    \/ Combine
    \/ Respond
    \/ RespondError

(***************************************************************************)
(* IssueDifficultyClassifier                                               *)
(***************************************************************************)
DIFFICULTY_LEVELS == <<"beginner", "intermediate", "advanced", "expert">>

\* tokenizer(..., max_length=512, padding='max_length', truncation=True)
MaxLength == 512

\* The width of the classification head, Dense(4, activation='softmax').
NumClasses == 4

\* The tokenizer: [CLS], the text's tokens cut to max_length - 2, [SEP],
\* then padding up to max_length.
Tokenize(text) ==
    LET kept == Take(text, MaxLength - 2)
    IN  <<"[CLS]">> \o kept \o <<"[SEP]">>
            \o [i \in 1..(MaxLength - 2 - Len(kept)) |-> "[PAD]"]

\* What tf.keras.models.load_model(path) can do: return the saved model or
\* raise (no artifact, a corrupt artifact, an interrupt during the load).
LoadOutcomes == {"ok", "OSError", "ValueError", "KeyboardInterrupt"}

Environments ==
    [artifact : LoadOutcomes, tokenizer : BOOLEAN, encoder : BOOLEAN]

NoRaise == [type |-> "", origin |-> ""]

\* IssueDifficultyClassifier._create_model: the fresh model, unless the
\* pretrained encoder cannot be obtained.
create_model(e) ==
    IF e.encoder
    THEN [raised |-> NoRaise, model |-> "fresh"]
    ELSE [raised |-> [type |-> "OSError", origin |-> "create_model"], model |-> "none"]

\* The exceptions the handler in _load_model catches: a bare except.
CaughtByLoadNarrow == {"OSError"}

CaughtByLoad == {"OSError", "ValueError", "KeyboardInterrupt"}

\* IssueDifficultyClassifier._load_model:
\* [raised, model, log], log the calls made and how they ended.
load_model(e) ==
    IF e.artifact = "ok"
    THEN [raised |-> NoRaise, model |-> "loaded", log |-> <<"load_ok">>]
    ELSE IF e.artifact \in CaughtByLoad
    THEN LET c == create_model(e)
         IN  [raised |-> c.raised, model |-> c.model,
              log |-> <<"load_failed">>
                        \o (IF c.model = "fresh" THEN <<"created">> ELSE <<"create_failed">>)]
    ELSE [raised |-> [type |-> e.artifact, origin |-> "load_model"],
          model |-> "none", log |-> <<"load_failed">>]

\* __init__ line 17: the tokenizer.
ConstructTokenizer ==
    /\ clf_pc = "uninitialized"
    /\ IF env.tokenizer
       THEN /\ clf_pc' = "loading"
            /\ clf_raised' = clf_raised
       ELSE /\ clf_pc' = "failed"
            /\ clf_raised' = [type |-> "OSError", origin |-> "tokenizer"]
    /\ UNCHANGED <<env, model, clf_log, prediction>>
    /\ UNCHANGED analyzer_vars

\* __init__ line 18: self.model = self._load_model(model_path).
ConstructModel ==
    /\ clf_pc = "loading"
    /\ LET r == load_model(env)
       IN  /\ clf_log' = r.log
           /\ clf_raised' = r.raised
           /\ model' = r.model
           /\ clf_pc' = IF r.raised = NoRaise THEN "loaded" ELSE "failed"
    /\ UNCHANGED <<env, prediction>>
    /\ UNCHANGED analyzer_vars

\* The outputs of a 4-way softmax, in units of 1/ProbScale.
SoftmaxOutputs ==
    {p \in [1..NumClasses -> 0..ProbScale] : p[1] + p[2] + p[3] + p[4] = ProbScale}

\* A mutant of ArgMax: the index of the last entry.
ArgLast(p) == Len(p) - 1

\* np.argmax: the (0-based) index of the first maximal entry.
ArgMax(p) ==
    CHOOSE i \in 0..(Len(p) - 1) :
        /\ \A j \in 0..(Len(p) - 1) : p[j + 1] <= p[i + 1]
        /\ \A j \in 0..(i - 1) : p[j + 1] < p[i + 1]

\* predict lines 66-71, from the model's output predictions[0].
predict(predictions) ==
    LET predicted_class == ArgMax(predictions)
    IN  [difficulty |-> DIFFICULTY_LEVELS[predicted_class + 1],
         confidence |-> predictions[predicted_class + 1]]

IssueTexts == {<<>>, <<"fix">>, <<"fix", "typo">>, [i \in 1..(MaxLength + 1) |-> "w"]}

\* classify_issue: issue_classifier.predict(issue_text) and the response.
\* The model's output for the tokens is any softmax output.
ClassifyIssue ==
    /\ clf_pc = "loaded"
    /\ \E text \in IssueTexts, predictions \in SoftmaxOutputs :
          LET r == predict(predictions)
          IN  prediction' =
                  Some([issue_text |-> text,
                        input_ids |-> Tokenize(text),
                        model |-> model,
                        predictions |-> predictions,
                        difficulty |-> r.difficulty,
                        confidence |-> r.confidence,
                        recommended_for_beginners |-> (r.difficulty = "beginner")])
    /\ UNCHANGED <<env, clf_pc, model, clf_log, clf_raised>>
    /\ UNCHANGED analyzer_vars

ClassifierNext ==
    \/ ConstructTokenizer
    \/ ConstructModel
    \/ ClassifyIssue

(***************************************************************************)
(* Specifications.                                                         *)
(***************************************************************************)
\* The classifier before construction; the analyzer specifications leave it so.
ClassifierIdle ==
    /\ env = [artifact |-> "ok", tokenizer |-> TRUE, encoder |-> TRUE]
    /\ clf_pc = "uninitialized"
    /\ model = "none"
    /\ clf_log = <<>>
    /\ clf_raised = NoRaise
    /\ prediction = None

\* The locals of a request that has not started.
AnalyzerLocalsEmpty ==
    /\ code = None
    /\ static_metrics = None
    /\ content = <<>>
    /\ ai_insights = None
    /\ final_score = None
    /\ create_calls = 0
    /\ raised = NoError
    /\ result = None
    /\ response = None

\* Spec: one analysis request, any file, any behaviour of the service.
Init ==
    /\ file \in {None} \union {Some(c) : c \in Sources}
    /\ remote \in RemoteOutcomes
    /\ pc = "request"
    /\ AnalyzerLocalsEmpty
    /\ ClassifierIdle

Next == AnalyzerNext

Spec == Init /\ [][Next]_vars

\* The texts the reply parser is applied to: every concatenation of up to n
\* of the given pieces.
RECURSIVE TextsOver(_, _)
TextsOver(pieces, n) ==
    IF n = 0 THEN {<<>>}
    ELSE LET shorter == TextsOver(pieces, n - 1)
         IN  shorter \union {t \o q : t \in shorter, q \in pieces}

ScorePieces ==
    {<<"1">>, <<"0">>, <<"7">>, <<".">>, <<"/">>, <<" ">>, <<"/", "1", "0">>}

SuggestPieces == {<<"-">>, <<" ">>, <<"\t">>, <<"a">>, <<"\n">>}

LinePieces ==
    {<<"-", " ", "a", "\n">>, <<"b", "\n">>, <<"-", "c", "\n">>}

ParserTexts ==
    TextsOver(ScorePieces, MaxScoreLen)
    \union TextsOver(SuggestPieces, MaxSuggestLen)
    \union TextsOver(LinePieces, MaxLines)
    \union ReplyTexts

EmptySource == [parse |-> "ok", tree |-> <<>>, newlines |-> 0]

\* SpecParser: _ai_analysis on every reply text of ParserTexts, after the
\* static analysis of an empty file.
InitParser ==
    /\ file = Some(EmptySource)
    /\ remote \in {[error |-> NoError, text |-> t] : t \in ParserTexts}
    /\ pc = "ai"
    /\ code = Some(EmptySource)
    /\ static_metrics = Some(static_analysis(EmptySource).value)
    /\ content = <<>>
    /\ ai_insights = None
    /\ final_score = None
    /\ create_calls = 0
    /\ raised = NoError
    /\ result = None
    /\ response = None
    /\ ClassifierIdle

NextParser == AiAnalysis

SpecParser == InitParser /\ [][NextParser]_vars

\* The model scores the fusion is applied to.
FusionScores ==
    {[num |-> n, den |-> d] : n \in 0..MaxNum, d \in {1, 10, 100}}
    \union {[num |-> 75, den |-> 10], [num |-> 100, den |-> 1]}

FusionMetrics ==
    {[lines_of_code |-> 1, functions |-> f, classes |-> c, complexity |-> x] :
        f \in 0..MaxCount, c \in 0..MaxCount, x \in (0..MaxComplexity) \union {100}}

\* SpecFusion: lines 38-45 of analyze_file on every static record of
\* FusionMetrics and every model score of FusionScores.
InitFusion ==
    /\ file = Some(EmptySource)
    /\ remote = [error |-> NoError, text |-> <<>>]
    /\ pc = "combine"
    /\ code = Some(EmptySource)
    /\ static_metrics \in {Some(m) : m \in FusionMetrics}
    /\ content = <<>>
    /\ ai_insights \in {Some([ai_score |-> a, suggestions |-> <<>>]) : a \in FusionScores}
    /\ final_score = None
    /\ create_calls = 1
    /\ raised = NoError
    /\ result = None
    /\ response = None
    /\ ClassifierIdle

NextFusion == Combine

SpecFusion == InitFusion /\ [][NextFusion]_vars

\* SpecClassifier: the construction of the classifier in any environment,
\* then classify_issue calls.
InitClassifier ==
    /\ file = None
    /\ remote = [error |-> NoError, text |-> <<>>]
    /\ pc = "idle"
    /\ AnalyzerLocalsEmpty
    /\ env \in Environments
    /\ clf_pc = "uninitialized"
    /\ model = "none"
    /\ clf_log = <<>>
    /\ clf_raised = NoRaise
    /\ prediction = None

NextClassifier == ClassifierNext

SpecClassifier == InitClassifier /\ [][NextClassifier]_vars

(***************************************************************************)
(* Properties.                                                             *)
(***************************************************************************)
ParseFailed == code # None /\ code[1].parse # "ok"

\* C1: for every source text that fails to parse, _static_analysis returns
\* the all-zero record without raising, and analyze_file still returns a
\* ComplexityScore when the remote request succeeds.
C1_UnparseableDegradesToZero ==
    (ParseFailed /\ pc \notin {"request", "static"}) =>
        /\ static_metrics = Some(ZeroMetrics)
        /\ raised.type \notin ParseFailures
        /\ (remote.error = NoError /\ pc \in {"returned", "responded"}) => result # None

\* C2: the score of every ComplexityScore returned lies in [0,10], each of
\* the two inputs of the 0.4/0.6 combination being at most 10.
C2_ScoreWithinScale ==
    result # None =>
        /\ result[1].score >= 0
        /\ result[1].score <= 1000
        /\ StaticScore(static_metrics[1]) <= 100
        /\ ai_insights[1].ai_score.num <= 10 * ai_insights[1].ai_score.den

RECURSIVE Pow10(_)
Pow10(k) == IF k = 0 THEN 1 ELSE 10 * Pow10(k - 1)

\* t is digits, or digits "." digits.
IsNumber(t) ==
    /\ t # <<>>
    /\ \A k \in 1..Len(t) : t[k] \in Digits \union {"."}
    /\ Cardinality({k \in 1..Len(t) : t[k] = "."}) <= 1
    /\ t[1] \in Digits
    /\ t[Len(t)] \in Digits

\* An occurrence of "<number>/10" starting at i, the "/10" at j.
IsOccurrence(s, i, j) == IsNumber(SubSeq(s, i, j - 1)) /\ LiteralAt(s, j)

OccurrenceStarts(s) ==
    {i \in 1..Len(s) : \E j \in (i + 1)..Len(s) : IsOccurrence(s, i, j)}

\* The decimal value of a number text: the sum of its digits weighted by
\* their place, over ten to the number of fraction digits.
RECURSIVE PlaceSum(_, _)
PlaceSum(ds, k) ==
    IF k > Len(ds) THEN 0
    ELSE DigitVal(ds[k]) * Pow10(Len(ds) - k) + PlaceSum(ds, k + 1)

NumberValue(t) ==
    LET dots == {k \in 1..Len(t) : t[k] = "."}
        ds == SelectSeq(t, LAMBDA c : c # ".")
    IN  [num |-> PlaceSum(ds, 1),
         den |-> IF dots = {} THEN 1 ELSE Pow10(Len(t) - (CHOOSE k \in dots : TRUE))]

\* C3: _extract_score returns the number of the leftmost "<number>/10"
\* occurrence in the reply, 5.0 when there is none, and never raises;
\* "Score: 7.5/10" gives 7.5.
C3_FirstScoreOccurrence ==
    pc \in {"combine", "raised"} =>
        /\ pc = "combine"
        /\ raised = NoError
        /\ LET starts == OccurrenceStarts(content)
               score == ai_insights[1].ai_score
           IN  IF starts = {}
               THEN score = [num |-> 5, den |-> 1]
               ELSE LET i == CHOOSE a \in starts : \A b \in starts : a <= b
                        j == CHOOSE b \in (i + 1)..Len(content) : IsOccurrence(content, i, b)
                    IN  score = NumberValue(SubSeq(content, i, j - 1))
        /\ content = ReplySpecExample => ai_insights[1].ai_score = [num |-> 75, den |-> 10]

\* C3 witness: a reply with two "/10" occurrences, "7/10 1/10", was parsed
\* and the first one, 7, is the score.
C3_Witness ==
    /\ pc = "combine"
    /\ content = <<"7", "/", "1", "0", " ", "1", "/", "1", "0">>
    /\ Cardinality(OccurrenceStarts(content)) = 2
    /\ ai_insights[1].ai_score = [num |-> 7, den |-> 1]

\* The lines of the reply that begin, after leading whitespace, with the
\* list marker, each with the marker and the whitespace around it removed.
RECURSIVE MarkerLines(_)
MarkerLines(lines) ==
    IF lines = <<>> THEN <<>>
    ELSE LET stripped == Strip(Head(lines))
         IN  IF StartsWithDash(stripped)
             THEN <<Strip(Tail(stripped))>> \o MarkerLines(Tail(lines))
             ELSE MarkerLines(Tail(lines))

\* C4: the suggestions are the first at most 5 list-marker lines of the
\* reply, in order, each with only the marker and the surrounding whitespace
\* removed; never more than 5.
C4_SuggestionsMarkerStripped ==
    pc = "combine" =>
        /\ Len(ai_insights[1].suggestions) <= 5
        /\ ai_insights[1].suggestions = Take(MarkerLines(Split(content)), 5)

\* The node classes of conditionals, loops and exception handlers.
ConditionalLoopHandlerKinds == {"If", "While", "For", "AsyncFor", "ExceptHandler"}

\* C5: the complexity of a parsed tree is 1 plus the number of its
\* conditional, loop and exception-handler nodes, whatever their nesting.
C5_CountsEveryBranchNode ==
    (static_metrics # None /\ code[1].parse = "ok") =>
        static_metrics[1].complexity =
            1 + Cardinality({i \in 1..Len(code[1].tree) :
                                code[1].tree[i].kind \in ConditionalLoopHandlerKinds})

Abs(x) == IF x < 0 THEN -x ELSE x

\* C6: _calculate_final_score returns 0.4*staticScore + 0.6*modelScore
\* rounded to two decimals, staticScore = min(10, 0.5*complexity +
\* 0.3*classes + 0.2*functions); complexity = 100 is clamped to 10 and
\* fuse(4.0, 6.0) = 5.2.
C6_FinalScoreFormula ==
    pc = "returned" =>
        LET m == static_metrics[1]
            a == ai_insights[1].ai_score
            raw == 5 * m.complexity + 3 * m.classes + 2 * m.functions
            staticScore == IF raw > 100 THEN 100 ELSE raw
            f == final_score[1]
        IN  /\ 2 * Abs(f * a.den - (4 * staticScore * a.den + 60 * a.num)) <= a.den
            /\ result[1].score = f
            /\ m.complexity = 100 => (raw >= 500 /\ f * a.den <= 400 * a.den + 60 * a.num + a.den)
            /\ (staticScore = 40 /\ a = [num |-> 6, den |-> 1]) => f = 520

\* C6 witness: complexity 100 (raw 50, clamped to 10) fused with a model
\* score of 6.0 gave 7.6.
C6_Witness ==
    /\ pc = "returned"
    /\ static_metrics[1].complexity = 100
    /\ ai_insights[1].ai_score = [num |-> 6, den |-> 1]
    /\ final_score = Some(760)

\* C7: in every ComplexityScore returned, and in the response built from it,
\* the beginner flag is true iff the report's final score is <= 4.0.
C7_BeginnerFlag ==
    /\ result # None =>
           /\ result[1].score = final_score[1]
           /\ result[1].suitable_for_beginner = (result[1].score <= 400)
    /\ (response # None /\ response[1].status = 200) =>
           /\ response[1].score = result[1].score
           /\ response[1].beginner_friendly = (response[1].score <= 400)

\* C7 witness: a response whose score is exactly 4.0, flagged suitable.
C7_Witness ==
    /\ pc = "responded"
    /\ response[1].status = 200
    /\ response[1].score = 400
    /\ response[1].beginner_friendly

\* C8: when the remote request fails, it was attempted exactly once, the
\* error propagates out of analyze_file with no report and no default model
\* score although the static metrics exist, and the API answers 500 with
\* the error's message.
C8_RemoteFailurePropagates ==
    /\ create_calls <= 1
    /\ (remote.error # NoError /\ static_metrics # None /\ pc # "ai") =>
           /\ create_calls = 1
           /\ pc \in {"raised", "responded"}
           /\ raised = remote.error
           /\ ai_insights = None
           /\ final_score = None
           /\ result = None
           /\ pc = "responded" =>
                  /\ response[1].status = 500
                  /\ response[1].detail = remote.error.message

\* C8 witness: a rate-limited request answered with status 500.
C8_Witness ==
    /\ pc = "responded"
    /\ remote.error.type = "RateLimitError"
    /\ static_metrics # None
    /\ create_calls = 1
    /\ response[1].status = 500

\* C9: predict returns the label at the arg-max index of the 4-way softmax
\* output, one of the four tiers, with that entry as confidence in [0,1],
\* for every text including the empty one.
C9_PredictTierAndConfidence ==
    prediction # None =>
        LET p == prediction[1]
        IN  /\ Len(p.input_ids) = MaxLength
            /\ p.difficulty \in {"beginner", "intermediate", "advanced", "expert"}
            /\ p.confidence >= 0
            /\ p.confidence <= ProbScale
            /\ \E i \in 1..4 :
                  /\ DIFFICULTY_LEVELS[i] = p.difficulty
                  /\ p.predictions[i] = p.confidence
                  /\ \A j \in 1..4 : p.predictions[j] <= p.confidence
                  /\ \A j \in 1..(i - 1) : p.predictions[j] < p.confidence

\* C9 witness: the empty text classified by a fresh model as expert.
C9_Witness ==
    /\ prediction # None
    /\ prediction[1].issue_text = <<>>
    /\ prediction[1].model = "fresh"
    /\ prediction[1].difficulty = "expert"
    /\ prediction[1].confidence * 2 > ProbScale

SyntaxErrorDegradesToZero ==
    (code # None /\ code[1].parse = "SyntaxError" /\ pc \notin {"request", "static"}) =>
        /\ static_metrics = Some(ZeroMetrics)
        /\ raised.type \notin ParseFailures
        /\ (remote.error = NoError /\ pc \in {"returned", "responded"}) => result # None

\* The score is never negative and the static input never exceeds 10.
ScoreNonNegative ==
    result # None =>
        /\ result[1].score >= 0
        /\ StaticScore(static_metrics[1]) <= 100

\* There are never more than 5 suggestions, and they are the first marker
\* lines, in order, each stripped of its leading and trailing "-" and " "
\* and then of whitespace.
SuggestionsCappedInOrder ==
    pc = "combine" =>
        LET marked == SelectSeq(Split(content), LAMBDA l : StartsWithDash(Strip(l)))
            got == ai_insights[1].suggestions
        IN  /\ Len(got) <= 5
            /\ Len(got) = IF Len(marked) < 5 THEN Len(marked) ELSE 5
            /\ \A k \in 1..Len(got) : got[k] = Strip(StripChars(marked[k], {"-", " "}))

\* The complexity is 1 plus the number of If, While, For and ExceptHandler
\* nodes, at any depth.
ComplexityCountsBranchKinds ==
    (static_metrics # None /\ code[1].parse = "ok") =>
        static_metrics[1].complexity =
            1 + Cardinality({i \in 1..Len(code[1].tree) :
                                code[1].tree[i].kind \in {"If", "While", "For", "ExceptHandler"}})

====
